---- MODULE Spec2Model ----
(***************************************************************************)
(* Model of the pymongorm field/document identity model:                   *)
(*   src/mongorm/documents.py  (MetaDocument, Document, cache_ref_deleted) *)
(*   src/pymongorm/fields.py   (BaseField and its validation)              *)
(*                                                                         *)
(* An instance is a slot of `objs`; a slot is live while the application   *)
(* holds a strong reference to it.  Releasing the last strong reference    *)
(* (Drop) runs the weak-reference callback at once, as CPython's reference *)
(* counting does.  The storage collaborator (a pymongo collection per      *)
(* document type) is the variable `store`.  The reserved keys "_id" and    *)
(* "_type" are written by construction, save and load only.                *)
(***************************************************************************)
EXTENDS Integers, Sequences, FiniteSets, TLC

VARIABLES objs, cache, store, nextId, issued, result, thr,
          own, heap, fval, handle

\* the state of the list and reference fields and of their owners
fieldVars == <<own, heap, fval, handle>>

vars == <<objs, cache, store, nextId, issued, result, thr, fieldVars>>

(* ------------------------------ bounds -------------------------------- *)
MaxInst == 2        \* instances alive at the same time
MaxId == 2          \* identities the storage hands out
NThreads == 2       \* threads of the concurrent specification
MaxOwn == 2         \* instances of the type with list and reference fields
MaxLen == 2         \* elements of a list

Inst == 1..MaxInst
Ids == 1..MaxId
Threads == 1..NThreads
Owners == 1..MaxOwn

(* ------------------------------ values -------------------------------- *)
StrV(s) == [t |-> "str", v |-> s]
IntV(n) == [t |-> "int", v |-> n]
OidV(n) == [t |-> "oid", v |-> n]
None == [t |-> "none", v |-> 0]
\* a list object, by its address in the heap
ListV(a) == [t |-> "list", v |-> a]
\* DBRef(collection, id)
RefV(col, id) == [t |-> "ref", v |-> <<col, id>>]
\* a document instance passed as a value, by its slot
DocV(i) == [t |-> "doc", v |-> i]

Empty == [k \in {} |-> None]

Without(f, k) == [x \in (DOMAIN f) \ {k} |-> f[x]]

(* ------------------------ field declarations -------------------------- *)
\* BaseField.__init__: accepted types, default (None when not given), required
BaseField(types, default, required) ==
    [types |-> types, default |-> default, required |-> required]

\* MetaDocument.__new__: every document class gets its own _type and _id
MetaAttrs(clsname) ==
    ("_type" :> BaseField({"str"}, StrV(clsname), FALSE))
    @@ ("_id" :> BaseField({"oid"}, None, FALSE))

\* The document types of the model:
\*   class Doc(Document): title = Field(basestring, required=True)
\*   class Sub(Doc):      name  = Field(basestring, required=True)
\*   class Rec(Sub):      title = Field(basestring, default="t")
\*                        rank  = Field(int, default=0)
Classes == {"Doc", "Sub", "Rec"}

ClassDict(cls) ==
    IF cls = "Doc" THEN
        MetaAttrs("Doc")
        @@ ("title" :> BaseField({"str"}, None, TRUE))
    ELSE IF cls = "Sub" THEN
        MetaAttrs("Sub")
        @@ ("name" :> BaseField({"str"}, None, TRUE))
    ELSE IF cls = "Rec" THEN
        MetaAttrs("Rec")
        @@ ("title" :> BaseField({"str"}, StrV("t"), FALSE))
        @@ ("rank" :> BaseField({"int"}, IntV(0), FALSE))
    ELSE MetaAttrs("Document")

\* cls.__mro__ without object, most derived first
Mro(cls) ==
    IF cls = "Rec" THEN <<"Rec", "Sub", "Doc", "Document">>
    ELSE IF cls = "Sub" THEN <<"Sub", "Doc", "Document">>
    ELSE IF cls = "Doc" THEN <<"Doc", "Document">>
    ELSE <<"Document">>

\* utils.is_field: the attribute is a field declaration
is_field(attr) == DOMAIN attr = {"types", "default", "required"}

RECURSIVE CollectAttrs(_)
\* attrs.update(obj.__dict__) for obj in reversed(mro): the most derived
\* class (the head of the mro) is applied last and wins
CollectAttrs(mro) ==
    IF mro = <<>> THEN Empty
    ELSE ClassDict(Head(mro)) @@ CollectAttrs(Tail(mro))

\* Document.fields, for an instance of class cls
FieldsOf(cls) ==
    LET attrs == CollectAttrs(Mro(cls))
    IN [k \in {n \in DOMAIN attrs : is_field(attrs[n])} |-> attrs[k]]

\* the field declarations of every class (they never change)
FieldTable == [c \in Classes |-> FieldsOf(c)]

Fields(cls) == FieldTable[cls]

\* utils.rget_subclasses: every direct and transitive subclass
rget_subclasses(cls) ==
    {c \in Classes : c # cls /\ \E n \in 1..Len(Mro(c)) : Mro(c)[n] = cls}

\* Document.collection: no _collection attribute, so the class name
collection(cls) == cls

(* --------------------------- field access ----------------------------- *)
\* BaseField.validate: isinstance(value, self.types)
FieldValid(field, value) == value.t \in field.types

\* MetaDocument.__init__, lines 34-35: setattr of every keyword argument;
\* a keyword that names a field goes through BaseField.__set__
InitOK(cls, kwargs) ==
    \A k \in (DOMAIN kwargs) \cap (DOMAIN Fields(cls)) :
        FieldValid(Fields(cls)[k], kwargs[k])

\* MetaDocument.__init__, lines 36-40: copy(default) for every field whose
\* default is not None
Defaults(cls) ==
    LET f == Fields(cls)
    IN [k \in {n \in DOMAIN f : f[n].default # None} |-> f[k].default]

\* InitData with the defaults applied last, over the explicit values
InitDataDefaultsLast(cls, kwargs) ==
    LET f == Fields(cls)
        explicit == [k \in (DOMAIN kwargs) \cap (DOMAIN f) |-> kwargs[k]]
    IN Defaults(cls) @@ explicit

\* MetaDocument.__init__, lines 33-40: explicit values, then setdefault
InitData(cls, kwargs) ==
    LET f == Fields(cls)
        explicit == [k \in (DOMAIN kwargs) \cap (DOMAIN f) |-> kwargs[k]]
    IN explicit @@ Defaults(cls)

(* ----------------------------- validate ------------------------------- *)
\* Document.validate, lines 92-95
MissingFields(cls, data) ==
    {n \in DOMAIN Fields(cls) : Fields(cls)[n].required /\ n \notin DOMAIN data}

\* Document.validate, line 99: the message formats self.name, which is an
\* attribute only when the type declares a field called name, and then is
\* read through BaseField.__get__ (inst._data["name"])
SelfName(cls, data) ==
    IF "name" \notin DOMAIN Fields(cls) THEN "AttributeError"
    ELSE IF "name" \notin DOMAIN data THEN "KeyError"
    ELSE "none"

\* Document.validate: the exception it leaves with ("none": returns)
ValidateExc(cls, data) ==
    IF MissingFields(cls, data) = {} THEN "none"
    ELSE IF SelfName(cls, data) # "none" THEN SelfName(cls, data)
    ELSE "ValidationError"

\* the field names the raised ValidationError lists
ValidateListed(cls, data) ==
    IF ValidateExc(cls, data) = "ValidationError" THEN MissingFields(cls, data)
    ELSE {}

(* --------------------------- identity cache --------------------------- *)
\* CachePut that registers nothing
CachePutNothing(c, id, i) == c

\* Document.cache: __cache__[_id] = weakref.ref(self, ...)
CachePut(c, id, i) == (id :> i) @@ c

\* _id in cls.__cache__
CacheHas(c, id) == id \in DOMAIN c

\* Document.get_cache: the referent of the entry, 0 for None
get_cache(c, id) == IF id \in DOMAIN c THEN c[id] ELSE 0

\* cache_ref_deleted that pops nothing
cache_ref_kept(c, i) == c

\* cache_ref_deleted, run by the weak reference of instance i when i dies:
\* pops the entry holding that weak reference; when no entry holds it,
\* pop(None) raises inside the callback and the cache stays as it is
cache_ref_deleted(c, i) == [id \in {x \in DOMAIN c : c[x] # i} |-> c[id]]

\* InitCache without the membership test of line 31
InitCacheAlways(c, kwargs, i) ==
    IF "_id" \in DOMAIN kwargs THEN (kwargs["_id"].v :> i) @@ c ELSE c

\* InitCache that never registers
InitCacheNever(c, kwargs, i) == c

\* MetaDocument.__init__, lines 31-32
InitCache(c, kwargs, i) ==
    IF "_id" \in DOMAIN kwargs /\ ~CacheHas(c, kwargs["_id"].v)
    THEN CachePut(c, kwargs["_id"].v, i)
    ELSE c

(* ------------------------ storage collaborator ------------------------ *)
\* col.insert(doc): stores doc under a new identity, which it also writes
\* into doc
StorageInsert(col, id, doc) == (id :> (("_id" :> OidV(id)) @@ doc)) @@ col

\* col.update({"_id": id}, doc): replaces the document at id; upsert is off,
\* so nothing is written when no document has that identity
StorageUpdate(col, id, doc) ==
    IF id \in DOMAIN col THEN [col EXCEPT ![id] = doc] ELSE col

\* col.remove({"_id": id})
StorageRemove(col, id) == Without(col, id)

(* ------------------------------- state -------------------------------- *)
\* a free slot
NoObj == [live |-> FALSE, cls |-> "", data |-> Empty, loaded |-> FALSE]

\* a thread that is not inside a load
IdleThread ==
    [pc |-> "idle", cls |-> "", doc |-> Empty, obj |-> 0, exc |-> "none"]

\* what the last operation was and how it ended:
\*   op, inst   the operation and the instance it was called on or returned
\*   exc        the exception it raised ("none": it returned)
\*   listed     the field names a ValidationError of validate lists
\*   hit        of a load: "new" (constructed), "cached" (the cached instance,
\*              never returned by a load before) or "again" (the cached
\*              instance, returned by a load before)
\*   args       the keyword arguments of a construction by the application
\*   via        of a load: the class it was called on
Outcome(op, i, exc, listed) ==
    [op |-> op, inst |-> i, exc |-> exc, listed |-> listed,
     hit |-> "none", args |-> Empty, via |-> ""]

Request(op, col, id) == [op |-> op, col |-> col, id |-> id]

(* ------------------ list and reference fields: state ------------------ *)
\* The type that owns the list and reference fields of the model:
\*   class Own(Document): m    = Field(list, default=[[]])
\*                        tags = ListField(basestring)
\*                        refs = ListRefField(Doc)
\*                        ref  = RefField(Doc)
\* The list fields are descriptors shared by all instances of Own:
\* fval[f] is the list that SelfishField._value of field f refers to.
ListFields == {"tags", "refs"}

\* the list objects of the declaration of m: the default and its element
DeclOuter == 1
DeclInner == 2

\* the list object that the construction of owner o makes for field f
Addr(o, f) == 10 * o + (IF f = "m" THEN 1 ELSE IF f = "tags" THEN 2 ELSE 3)

Addrs == {DeclOuter, DeclInner}
         \cup {Addr(o, f) : o \in Owners, f \in {"m", "tags", "refs"}}

NoOwn == [live |-> FALSE, data |-> Empty]

\* own[o]     owner o: held by the application, and its _data dict
\* heap[a]    the elements of the list object at address a
\* fval[f]    the address SelfishField._value of list field f holds, 0: None
\* handle     the owner on which the application read the list field whose
\*            descriptor it keeps as a handle, 0: it keeps none
InitFields ==
    /\ own = [o \in Owners |-> NoOwn]
    /\ heap = [a \in Addrs |->
                 IF a = DeclOuter THEN <<ListV(DeclInner)>> ELSE <<>>]
    /\ fval = [f \in ListFields |-> 0]
    /\ handle = 0

\* objs[i].live    the application holds a strong reference to instance i
\* objs[i].cls     its class, objs[i].data its _data dict
\* objs[i].loaded  it has been returned by find, find_one or dereference
\* cache[c]        c.__cache__: identity -> instance (weakly held)
\* store[c]        the collection of class c: identity -> stored document
\* nextId          the next identity the storage assigns
\* issued          the storage requests of the last operation
\* result          the outcome of the last operation
\* thr             the threads of the concurrent specification
Init ==
    /\ objs = [i \in Inst |-> NoObj]
    /\ cache = [c \in Classes |-> Empty]
    /\ store = [c \in Classes |-> Empty]
    /\ nextId = 1
    /\ issued = <<>>
    /\ result = Outcome("init", 0, "none", {})
    /\ thr = [t \in Threads |-> IdleThread]
    /\ InitFields

HasId(data) == "_id" \in DOMAIN data

IdOf(data) == data["_id"].v

\* instance i exists: the application or the traceback of a failed
\* construction holds a strong reference to it
Exists(i) == objs[i] # NoObj

FreeSlots == {i \in Inst : ~Exists(i)}

\* the slot a new instance is allocated in
NewSlot == CHOOSE i \in FreeSlots : \A j \in FreeSlots : i <= j

(* ---------------------------- construction ---------------------------- *)
\* the classes whose instances are saved and loaded
StoredClasses == {"Doc", "Sub"}

\* keyword arguments of a construction of a stored class; a construction
\* is given the keywords that name fields of its class
Kwargs ==
    {Empty,
     "title" :> StrV("a"),
     "title" :> IntV(2),
     "name" :> StrV("a"),
     ("title" :> StrV("a")) @@ ("name" :> StrV("a"))}

\* the field writes of the application: a field and the value assigned
Writes ==
    {<<"title", StrV("a")>>, <<"title", IntV(2)>>,
     <<"name", StrV("a")>>, <<"name", StrV("b")>>}

\* the _data a construction may have filled when a setattr of line 35
\* raises: the values of some of the arguments that pass their field's
\* validate (kwargs.iteritems() has no defined order)
PartialData(cls, kwargs) ==
    LET f == Fields(cls)
        ok == {k \in (DOMAIN kwargs) \cap (DOMAIN f) : FieldValid(f[k], kwargs[k])}
    IN {[k \in S |-> kwargs[k]] : S \in SUBSET ok}

\* a construction raised after line 32 registered the instance: the frames
\* of the exception's traceback hold the only strong reference to it
Stranded(cls, kwargs) ==
    /\ ~InitOK(cls, kwargs)
    /\ InitCache(cache[cls], kwargs, NewSlot) # cache[cls]

\* cls(**kwargs), MetaDocument.__init__ lines 30-40.  When a setattr raises,
\* the application gets no instance; an instance that line 32 registered
\* stays in the cache until the traceback is released (Unwind).
New(cls, kwargs, op, ld, via) ==
    /\ FreeSlots # {}
    /\ IF InitOK(cls, kwargs)
       THEN /\ objs' = [objs EXCEPT ![NewSlot] =
                          [live |-> TRUE, cls |-> cls,
                           data |-> InitData(cls, kwargs), loaded |-> ld]]
            /\ cache' = [cache EXCEPT ![cls] = InitCache(@, kwargs, NewSlot)]
            /\ result' = [Outcome(op, NewSlot, "none", {}) EXCEPT
                            !.hit = IF ld THEN "new" ELSE "none",
                            !.args = IF ld THEN Empty ELSE kwargs,
                            !.via = via]
       ELSE /\ IF Stranded(cls, kwargs)
               THEN /\ \E d \in PartialData(cls, kwargs) :
                         objs' = [objs EXCEPT ![NewSlot] =
                                    [live |-> FALSE, cls |-> cls,
                                     data |-> d, loaded |-> FALSE]]
                    /\ cache' = [cache EXCEPT ![cls] =
                                   InitCache(@, kwargs, NewSlot)]
               ELSE UNCHANGED <<objs, cache>>
            /\ result' = [Outcome(op, 0, "ValidationError", {}) EXCEPT
                            !.args = IF ld THEN Empty ELSE kwargs,
                            !.via = via]

\* the application constructs an instance without an identity argument
Construct(cls, kwargs) ==
    /\ DOMAIN kwargs \subseteq DOMAIN Fields(cls)
    /\ New(cls, kwargs, "construct", FALSE, "")
    /\ issued' = <<>>
    /\ UNCHANGED <<store, nextId, thr, fieldVars>>

\* the application constructs an instance with an identity argument
ConstructWithId(cls, kwargs, id) ==
    /\ DOMAIN kwargs \subseteq DOMAIN Fields(cls)
    /\ New(cls, ("_id" :> OidV(id)) @@ kwargs, "construct_id", FALSE, "")
    /\ issued' = <<>>
    /\ UNCHANGED <<store, nextId, thr, fieldVars>>

(* ---------------------------- field write ----------------------------- *)
\* inst.<name> = value, BaseField.__set__ lines 42-44
WriteField(i, name, value) ==
    /\ objs[i].live
    /\ name \in (DOMAIN Fields(objs[i].cls)) \ {"_id", "_type"}
    /\ IF FieldValid(Fields(objs[i].cls)[name], value)
       THEN /\ objs' = [objs EXCEPT ![i].data = (name :> value) @@ @]
            /\ result' = Outcome("write", 0, "none", {})
       ELSE /\ UNCHANGED objs
            /\ result' = Outcome("write", 0, "ValidationError", {})
    /\ issued' = <<>>
    /\ UNCHANGED <<cache, store, nextId, thr, fieldVars>>

(* ------------------------------ validate ------------------------------ *)
\* inst.validate(), lines 90-99
Validate(i) ==
    /\ objs[i].live
    /\ result' = Outcome("validate", i, ValidateExc(objs[i].cls, objs[i].data),
                         ValidateListed(objs[i].cls, objs[i].data))
    /\ issued' = <<>>
    /\ UNCHANGED <<objs, cache, store, nextId, thr, fieldVars>>

(* -------------------------------- save -------------------------------- *)
\* inst.save() when validate raises, lines 103-104
SaveInvalid(i) ==
    /\ objs[i].live
    /\ ValidateExc(objs[i].cls, objs[i].data) # "none"
    /\ result' = Outcome("save", i, ValidateExc(objs[i].cls, objs[i].data),
                         ValidateListed(objs[i].cls, objs[i].data))
    /\ issued' = <<>>
    /\ UNCHANGED <<objs, cache, store, nextId, thr, fieldVars>>

\* inst.save() of an instance without _id, lines 103-108
SaveInsert(i) ==
    /\ objs[i].live
    /\ ValidateExc(objs[i].cls, objs[i].data) = "none"
    /\ ~HasId(objs[i].data)
    /\ nextId <= MaxId
    /\ LET col == collection(objs[i].cls)
       IN /\ store' = [store EXCEPT ![col] =
                          StorageInsert(@, nextId, objs[i].data)]
          /\ issued' = <<Request("insert", col, nextId)>>
    /\ objs' = [objs EXCEPT ![i].data = ("_id" :> OidV(nextId)) @@ @]
    /\ cache' = [cache EXCEPT ![objs[i].cls] = CachePut(@, nextId, i)]
    /\ nextId' = nextId + 1
    /\ result' = Outcome("save", i, "none", {})
    /\ UNCHANGED <<thr, fieldVars>>

\* inst.save() of an instance with _id, lines 103-105 and 109-110
SaveUpdate(i) ==
    /\ objs[i].live
    /\ ValidateExc(objs[i].cls, objs[i].data) = "none"
    /\ HasId(objs[i].data)
    /\ LET col == collection(objs[i].cls)
       IN /\ store' = [store EXCEPT ![col] =
                          StorageUpdate(@, IdOf(objs[i].data), objs[i].data)]
          /\ issued' = <<Request("update", col, IdOf(objs[i].data))>>
    /\ result' = Outcome("save", i, "none", {})
    /\ UNCHANGED <<objs, cache, nextId, thr, fieldVars>>

Save(i) == SaveInvalid(i) \/ SaveInsert(i) \/ SaveUpdate(i)

(* ------------------------------- remove ------------------------------- *)
\* Remove that also evicts the identity cache entry of the instance
RemoveEvicts(i) ==
    /\ objs[i].live
    /\ IF HasId(objs[i].data)
       THEN LET col == collection(objs[i].cls)
            IN /\ store' = [store EXCEPT ![col] =
                               StorageRemove(@, IdOf(objs[i].data))]
               /\ issued' = <<[op |-> "remove", col |-> col,
                               id |-> IdOf(objs[i].data)]>>
       ELSE /\ UNCHANGED store
            /\ issued' = <<>>
    /\ cache' = [cache EXCEPT ![objs[i].cls] = cache_ref_deleted(@, i)]
    /\ result' = Outcome("remove", i, "none", {})
    /\ UNCHANGED <<objs, nextId, thr, fieldVars>>

\* inst.remove(), lines 147-150
Remove(i) ==
    /\ objs[i].live
    /\ IF HasId(objs[i].data)
       THEN LET col == collection(objs[i].cls)
            IN /\ store' = [store EXCEPT ![col] =
                               StorageRemove(@, IdOf(objs[i].data))]
               /\ issued' = <<Request("remove", col, IdOf(objs[i].data))>>
       ELSE /\ UNCHANGED store
            /\ issued' = <<>>
    /\ result' = Outcome("remove", i, "none", {})
    /\ UNCHANGED <<objs, cache, nextId, thr, fieldVars>>

(* -------------------------------- loads ------------------------------- *)
LoadOps == {"find_one", "find", "dereference"}

\* Materialize that updates the cached instance's data with the document,
\* keeping the other keys
MaterializeMerge(cls, id, doc, op, via) ==
    IF CacheHas(cache[cls], id)
    THEN LET i == get_cache(cache[cls], IdOf(doc))
         IN /\ objs' = [objs EXCEPT ![i].data = doc @@ @, ![i].loaded = TRUE,
                                     ![i].live = TRUE]
            /\ result' = [Outcome(op, i, "none", {}) EXCEPT
                            !.hit = IF objs[i].loaded THEN "again" ELSE "cached",
                            !.via = via]
            /\ UNCHANGED cache
    ELSE New(cls, doc, op, TRUE, via)

\* lines 117-121, 140-144 and 165-169: reuse the cached instance and replace
\* its data, or construct.  id is the identity looked up in the cache.
Materialize(cls, id, doc, op, via) ==
    IF CacheHas(cache[cls], id)
    THEN LET i == get_cache(cache[cls], IdOf(doc))
         IN /\ objs' = [objs EXCEPT ![i].data = doc, ![i].loaded = TRUE,
                                     ![i].live = TRUE]
            /\ result' = [Outcome(op, i, "none", {}) EXCEPT
                            !.hit = IF objs[i].loaded THEN "again" ELSE "cached",
                            !.via = via]
            /\ UNCHANGED cache
    ELSE New(cls, doc, op, TRUE, via)

\* cls.find_one(**spec) when a document with identity id matches
FindOne(cls, id) ==
    /\ id \in DOMAIN store[collection(cls)]
    /\ Materialize(cls, IdOf(store[collection(cls)][id]),
                   store[collection(cls)][id], "find_one", cls)
    /\ issued' = <<Request("find_one", collection(cls), id)>>
    /\ UNCHANGED <<store, nextId, thr, fieldVars>>

\* one step of the generator of cls.find(**spec): the cursor yields the
\* document with identity id
FindNext(cls, id) ==
    /\ id \in DOMAIN store[collection(cls)]
    /\ Materialize(cls, IdOf(store[collection(cls)][id]),
                   store[collection(cls)][id], "find", cls)
    /\ issued' = <<Request("find", collection(cls), id)>>
    /\ UNCHANGED <<store, nextId, thr, fieldVars>>

\* DocType that ignores the type tag
DocTypeRequested(cls, tag) == cls

\* lines 160-164: the class named by the type tag, among cls and its
\* subclasses; cls when none is
DocType(cls, tag) ==
    IF tag = cls THEN cls
    ELSE IF tag \in rget_subclasses(cls) THEN tag
    ELSE cls

\* cls.dereference(DBRef(col, id)) when the reference resolves
Dereference(cls, col, id) ==
    /\ id \in DOMAIN store[col]
    /\ LET doc == store[col][id]
       IN Materialize(DocType(cls, doc["_type"].v), id, doc, "dereference",
                      cls)
    /\ issued' = <<Request("dereference", col, id)>>
    /\ UNCHANGED <<store, nextId, thr, fieldVars>>

(* -------------------------------- drop -------------------------------- *)
\* the application releases its last strong reference to instance i; the
\* weak reference made by Document.cache calls cache_ref_deleted
Drop(i) ==
    /\ objs[i].live
    /\ \A t \in Threads : thr[t].obj # i
    /\ objs' = [objs EXCEPT ![i] = NoObj]
    /\ cache' = [cache EXCEPT ![objs[i].cls] = cache_ref_deleted(@, i)]
    /\ result' = Outcome("drop", 0, "none", {})
    /\ issued' = <<>>
    /\ UNCHANGED <<store, nextId, thr, fieldVars>>

\* the traceback of a failed construction is released: the instance it
\* held dies and its weak reference calls cache_ref_deleted
Unwind(i) ==
    /\ Exists(i) /\ ~objs[i].live
    /\ objs' = [objs EXCEPT ![i] = NoObj]
    /\ cache' = [cache EXCEPT ![objs[i].cls] = cache_ref_deleted(@, i)]
    /\ result' = Outcome("unwind", 0, "none", {})
    /\ issued' = <<>>
    /\ UNCHANGED <<store, nextId, thr, fieldVars>>

\* The application drives one thread.  An identity argument is one the
\* storage has handed out.
Next ==
    \/ \E cls \in StoredClasses, kw \in Kwargs : Construct(cls, kw)
    \/ \E cls \in StoredClasses, kw \in Kwargs, id \in Ids :
          id < nextId /\ ConstructWithId(cls, kw, id)
    \/ \E i \in Inst, w \in Writes : WriteField(i, w[1], w[2])
    \/ \E i \in Inst : Save(i)
    \/ \E i \in Inst : Remove(i)
    \/ \E cls \in StoredClasses, id \in Ids : FindOne(cls, id)
    \/ \E cls \in StoredClasses, id \in Ids : FindNext(cls, id)
    \/ \E cls \in StoredClasses, col \in StoredClasses, id \in Ids :
          Dereference(cls, col, id)
    \/ \E i \in Inst : Drop(i)
    \/ \E i \in Inst : Unwind(i)

Spec == Init /\ [][Next]_vars

\* the arguments and the writes of an application that works with class
\* Doc alone
DocKwargs == {Empty, "title" :> StrV("a")}

DocWrites == {<<"title", StrV("a")>>, <<"title", StrV("b")>>}

\* Loads of one class: every instance is constructed with its required
\* field, so each save of this application passes validate and is an
\* insert or an update.
NextLoad ==
    \/ Construct("Doc", "title" :> StrV("a"))
    \/ \E id \in Ids :
          id < nextId /\ ConstructWithId("Doc", "title" :> StrV("a"), id)
    \/ \E i \in Inst : WriteField(i, "title", StrV("b"))
    \/ \E i \in Inst : SaveInsert(i)
    \/ \E i \in Inst : SaveUpdate(i)
    \/ \E id \in Ids : FindOne("Doc", id)
    \/ \E id \in Ids : FindNext("Doc", id)
    \/ \E id \in Ids : Dereference("Doc", collection("Doc"), id)
    \/ \E i \in Inst : Drop(i)

SpecLoad == Init /\ [][NextLoad]_vars

(* ------------------------- concurrent loads --------------------------- *)
\* A thread runs cls.find_one(**spec), lines 135-145, one shared-state access
\* per step; thr[t].pc is the line it executes next, thr[t].doc the fetched
\* document (local doc), thr[t].obj the instance it holds (local document,
\* or self inside __init__), thr[t].exc the exception that ended the call.

\* line 136: doc = col.find_one(spec)
TFetch(t, cls, id) ==
    /\ thr[t].pc = "idle"
    /\ id \in DOMAIN store[collection(cls)]
    /\ thr' = [thr EXCEPT ![t] = [pc |-> "l140", cls |-> cls,
                                  doc |-> store[collection(cls)][id],
                                  obj |-> 0, exc |-> "none"]]
    /\ UNCHANGED <<objs, cache, store, nextId, issued, result, fieldVars>>

\* line 140: if doc["_id"] in cls.__cache__
TCheck(t) ==
    /\ thr[t].pc = "l140"
    /\ thr' = [thr EXCEPT ![t].pc =
                 IF CacheHas(cache[thr[t].cls], IdOf(thr[t].doc))
                 THEN "l141" ELSE "l144"]
    /\ UNCHANGED <<objs, cache, store, nextId, issued, result, fieldVars>>

\* line 141: document = cls.get_cache(doc["_id"]), None when the entry went
TGetCache(t) ==
    /\ thr[t].pc = "l141"
    /\ thr' = [thr EXCEPT ![t].pc = "l142",
                          ![t].obj = get_cache(cache[thr[t].cls], IdOf(thr[t].doc))]
    /\ UNCHANGED <<objs, cache, store, nextId, issued, result, fieldVars>>

\* line 142: document.data = doc, and the return of line 145
TSetData(t) ==
    /\ thr[t].pc = "l142"
    /\ IF thr[t].obj = 0
       THEN /\ thr' = [thr EXCEPT ![t].pc = "done", ![t].exc = "AttributeError"]
            /\ UNCHANGED objs
       ELSE /\ objs' = [objs EXCEPT ![thr[t].obj].data = thr[t].doc,
                                    ![thr[t].obj].loaded = TRUE]
            /\ thr' = [thr EXCEPT ![t].pc = "done"]
    /\ UNCHANGED <<cache, store, nextId, issued, result, fieldVars>>

\* line 144: cls(**doc) allocates the instance and enters __init__, whose
\* line 31 tests "_id" in kwargs and not kwargs["_id"] in self.__cache__
TNew(t) ==
    /\ thr[t].pc = "l144"
    /\ FreeSlots # {}
    /\ objs' = [objs EXCEPT ![NewSlot] =
                  [live |-> TRUE, cls |-> thr[t].cls, data |-> Empty,
                   loaded |-> FALSE]]
    /\ thr' = [thr EXCEPT ![t].obj = NewSlot,
                          ![t].pc =
                 IF HasId(thr[t].doc)
                    /\ ~CacheHas(cache[thr[t].cls], IdOf(thr[t].doc))
                 THEN "l32" ELSE "l33"]
    /\ UNCHANGED <<cache, store, nextId, issued, result, fieldVars>>

\* line 32: self.cache(kwargs["_id"])
TRegister(t) ==
    /\ thr[t].pc = "l32"
    /\ cache' = [cache EXCEPT ![thr[t].cls] =
                   CachePut(@, IdOf(thr[t].doc), thr[t].obj)]
    /\ thr' = [thr EXCEPT ![t].pc = "l33"]
    /\ UNCHANGED <<objs, store, nextId, issued, result, fieldVars>>

\* lines 33-40 and the return of line 145; when a setattr raises, the
\* instance dies and its weak reference callback runs
TFill(t) ==
    /\ thr[t].pc = "l33"
    /\ IF InitOK(thr[t].cls, thr[t].doc)
       THEN /\ objs' = [objs EXCEPT
                          ![thr[t].obj].data = InitData(thr[t].cls, thr[t].doc),
                          ![thr[t].obj].loaded = TRUE]
            /\ thr' = [thr EXCEPT ![t].pc = "done"]
            /\ UNCHANGED cache
       ELSE /\ objs' = [objs EXCEPT ![thr[t].obj] = NoObj]
            /\ cache' = [cache EXCEPT ![thr[t].cls] =
                           cache_ref_deleted(@, thr[t].obj)]
            /\ thr' = [thr EXCEPT ![t].pc = "done", ![t].obj = 0,
                                  ![t].exc = "ValidationError"]
    /\ UNCHANGED <<store, nextId, issued, result, fieldVars>>

AllIdle == \A t \in Threads : thr[t].pc = "idle"

\* The application saves documents, then threads load them concurrently,
\* each keeping the instance it was returned; instances no thread holds may
\* be dropped at any time.
NextConc ==
    \/ \E cls \in StoredClasses, kw \in Kwargs : AllIdle /\ Construct(cls, kw)
    \/ \E i \in Inst : AllIdle /\ SaveInsert(i)
    \/ \E i \in Inst : Drop(i)
    \/ \E t \in Threads, cls \in StoredClasses, id \in Ids : TFetch(t, cls, id)
    \/ \E t \in Threads : TCheck(t)
    \/ \E t \in Threads : TGetCache(t)
    \/ \E t \in Threads : TSetData(t)
    \/ \E t \in Threads : TNew(t)
    \/ \E t \in Threads : TRegister(t)
    \/ \E t \in Threads : TFill(t)

SpecConc == Init /\ [][NextConc]_vars

\* Field writes, save and remove of one class: no load, no identity
\* argument.
NextSave ==
    \/ \E kw \in DocKwargs : Construct("Doc", kw)
    \/ \E i \in Inst, w \in DocWrites : WriteField(i, w[1], w[2])
    \/ \E i \in Inst : Save(i)
    \/ \E i \in Inst : Remove(i)
    \/ \E i \in Inst : Drop(i)

SpecSave == Init /\ [][NextSave]_vars

\* keyword arguments of a construction of any class: every assignment of a
\* string or an integer to some of the declared fields
InitArgNames == {"title", "rank", "name"}

InitKwargs == UNION {[S -> {StrV("a"), IntV(2)}] : S \in SUBSET InitArgNames}

\* Constructions of every class with every argument list, and validate;
\* one instance exists at a time.
NoneHeld == \A i \in Inst : ~Exists(i)

NextInit ==
    \/ \E cls \in Classes, kw \in InitKwargs :
          NoneHeld /\ Construct(cls, kw)
    \/ \E cls \in Classes, kw \in InitKwargs, id \in Ids :
          NoneHeld /\ ConstructWithId(cls, kw, id)
    \/ \E i \in Inst : Validate(i)
    \/ \E i \in Inst : Drop(i)
    \/ \E i \in Inst : Unwind(i)

SpecInit == Init /\ [][NextInit]_vars

\* the arguments that construct a saveable instance of each class
SaveableKwargs(cls) ==
    IF cls = "Doc" THEN "title" :> StrV("a")
    ELSE IF cls = "Sub" THEN ("title" :> StrV("a")) @@ ("name" :> StrV("a"))
    ELSE "name" :> StrV("b")

\* Documents of a class and of its subclasses are saved, and dereferenced
\* through the class and through its subclasses.
NextDeref ==
    \/ \E cls \in Classes : Construct(cls, SaveableKwargs(cls))
    \/ \E i \in Inst : SaveInsert(i)
    \/ \E cls \in Classes, col \in Classes, id \in Ids :
          Dereference(cls, col, id)
    \/ \E i \in Inst : Drop(i)

SpecDeref == Init /\ [][NextDeref]_vars

\* Documents of a class with defaults are written, saved, dropped and
\* loaded again.
NextTrip ==
    \/ Construct("Rec", SaveableKwargs("Rec"))
    \/ \E i \in Inst : WriteField(i, "title", StrV("b"))
    \/ \E i \in Inst : SaveInsert(i)
    \/ \E i \in Inst : SaveUpdate(i)
    \/ \E id \in Ids : FindOne("Rec", id)
    \/ \E id \in Ids : FindNext("Rec", id)
    \/ \E i \in Inst : Drop(i)

SpecTrip == Init /\ [][NextTrip]_vars

\* Documents of one class are saved and loaded through that class and,
\* by dereference, through a class that declares further fields; loaded
\* instances are written and loaded again.
ReloadClasses == {"Doc", "Rec"}

NextReload ==
    \/ Construct("Doc", SaveableKwargs("Doc"))
    \/ \E i \in Inst : WriteField(i, "title", StrV("b"))
    \/ \E i \in Inst : SaveInsert(i)
    \/ \E id \in Ids : FindOne("Doc", id)
    \/ \E id \in Ids : FindNext("Doc", id)
    \/ \E cls \in ReloadClasses, id \in Ids : Dereference(cls, "Doc", id)
    \/ \E i \in Inst : Drop(i)

SpecReload == Init /\ [][NextReload]_vars

(* --------------------------- raw documents ---------------------------- *)
\* The raw documents of identity id that the collection of Rec may hold,
\* written by this program or by another one: complete; lacking the fields
\* that have defaults; with a key that is no declared field; with a value of
\* a type its field does not accept.
RawComplete(id) ==
    ("_id" :> OidV(id)) @@ ("_type" :> StrV("Rec")) @@ ("name" :> StrV("b"))
    @@ ("title" :> StrV("a")) @@ ("rank" :> IntV(2))

RawDocs(id) ==
    {RawComplete(id),
     Without(Without(RawComplete(id), "title"), "rank"),
     ("extra" :> StrV("x")) @@ RawComplete(id),
     ("rank" :> StrV("a")) @@ RawComplete(id)}

\* the storage holds a raw document at every identity
InitRaw ==
    /\ objs = [i \in Inst |-> NoObj]
    /\ cache = [c \in Classes |-> Empty]
    /\ \E col \in [Ids -> UNION {RawDocs(id) : id \in Ids}] :
          /\ \A id \in Ids : col[id] \in RawDocs(id)
          /\ store = [c \in Classes |-> IF c = "Rec" THEN col ELSE Empty]
    /\ nextId = MaxId + 1
    /\ issued = <<>>
    /\ result = Outcome("init", 0, "none", {})
    /\ thr = [t \in Threads |-> IdleThread]
    /\ InitFields

\* Raw documents are loaded, into a new instance or into the instance the
\* application constructed with their identity.
NextRaw ==
    \/ \E id \in Ids : ConstructWithId("Rec", SaveableKwargs("Rec"), id)
    \/ \E id \in Ids : FindOne("Rec", id)
    \/ \E id \in Ids : FindNext("Rec", id)
    \/ \E i \in Inst : Drop(i)
    \/ \E i \in Inst : Unwind(i)

SpecRaw == InitRaw /\ [][NextRaw]_vars

(* ----------------- list and reference fields: owners ------------------ *)
\* copy(value) of a list: a new list object that holds the same elements
copy(h, a) == h[a]

\* MetaDocument.__init__ lines 36-40 for Own(): setdefault of
\* copy(field.default) for the value default of m and of field.default()
\* for the producer default (list) of tags and refs
OwnDefaults(o) ==
    ("_type" :> StrV("Own"))
    @@ ("m" :> ListV(Addr(o, "m")))
    @@ ("tags" :> ListV(Addr(o, "tags")))
    @@ ("refs" :> ListV(Addr(o, "refs")))

FreeOwners == {o \in Owners : ~own[o].live}

NewOwner == CHOOSE o \in FreeOwners : \A p \in FreeOwners : o <= p

\* Own()
ConstructOwner ==
    /\ FreeOwners # {}
    /\ own' = [own EXCEPT ![NewOwner] =
                 [live |-> TRUE, data |-> OwnDefaults(NewOwner)]]
    /\ heap' = [heap EXCEPT ![Addr(NewOwner, "m")] = copy(heap, DeclOuter),
                            ![Addr(NewOwner, "tags")] = <<>>,
                            ![Addr(NewOwner, "refs")] = <<>>]
    /\ result' = Outcome("construct_own", NewOwner, "none", {})
    /\ issued' = <<>>
    /\ UNCHANGED <<objs, cache, store, nextId, thr, fval, handle>>

\* the list object that field f of owner o holds
ListOf(o, f) == own[o].data[f].v

\* SelfishField.__get__ lines 107-110, on owner o: the descriptor of f takes
\* the owner's list as its _value
Selfish(o, f) ==
    IF f \in ListFields THEN [fval EXCEPT ![f] = ListOf(o, f)] ELSE fval

\* o.m.append(x), through BaseField.__get__, and o.tags.append(x), through
\* SelfishField.__get__ and __getattr__
OwnerAppend(o, f, x) ==
    /\ own[o].live
    /\ Len(heap[ListOf(o, f)]) < MaxLen
    /\ heap' = [heap EXCEPT ![ListOf(o, f)] = Append(@, x)]
    /\ fval' = Selfish(o, f)
    /\ result' = Outcome("append", o, "none", {})
    /\ issued' = <<>>
    /\ UNCHANGED <<objs, cache, store, nextId, thr, own, handle>>

\* o.m[0].append(x): the first element of the list of m is a list
AppendNested(o, x) ==
    /\ own[o].live
    /\ LET inner == heap[ListOf(o, "m")][1].v
       IN /\ Len(heap[inner]) < MaxLen
          /\ heap' = [heap EXCEPT ![inner] = Append(@, x)]
    /\ result' = Outcome("append_nested", o, "none", {})
    /\ issued' = <<>>
    /\ UNCHANGED <<objs, cache, store, nextId, thr, own, fval, handle>>

\* Instances are constructed from the declarations of Own, and the lists
\* their defaults gave them are changed in place.
NextDefault ==
    \/ ConstructOwner
    \/ \E o \in Owners, f \in {"m", "tags"} : OwnerAppend(o, f, StrV("x"))
    \/ \E o \in Owners : AppendNested(o, StrV("x"))

SpecDefault == Init /\ [][NextDefault]_vars

(* ------------------------- list field handle -------------------------- *)
\* the values and the lists the application writes to tags
TagValues == {StrV("x"), StrV("y")}

TagLists == {<<>>, <<StrV("y")>>, <<IntV(2)>>}

\* o.tags, SelfishField.__get__ lines 107-110: returns the descriptor, which
\* the application keeps as a handle (h = o.tags) or uses at once
ReadList(o, keep) ==
    /\ own[o].live
    /\ fval' = Selfish(o, "tags")
    /\ handle' = IF keep THEN o ELSE handle
    /\ result' = Outcome("read_list", o, "none", {})
    /\ issued' = <<>>
    /\ UNCHANGED <<objs, cache, store, nextId, thr, own, heap>>

\* o.tags = value, ListField.__set__ lines 124-130; value is a new list
\* object, which takes the place of the owner's list
AssignList(o, value) ==
    /\ own[o].live
    /\ IF \A k \in 1..Len(value) : value[k].t = "str"
       THEN /\ heap' = [heap EXCEPT ![ListOf(o, "tags")] = value]
            /\ fval' = Selfish(o, "tags")
            /\ result' = Outcome("assign_list", o, "none", {})
       ELSE /\ UNCHANGED <<heap, fval>>
            /\ result' = Outcome("assign_list", o, "ValidationError", {})
    /\ issued' = <<>>
    /\ UNCHANGED <<objs, cache, store, nextId, thr, own, handle>>

\* h.append(x): SelfishField.__getattr__ line 105 hands out the append of
\* the list that _value refers to
HandleAppend(x) ==
    /\ handle # 0
    /\ Len(heap[fval["tags"]]) < MaxLen
    /\ heap' = [heap EXCEPT ![fval["tags"]] = Append(@, x)]
    /\ result' = [Outcome("h_append", handle, "none", {}) EXCEPT
                    !.args = "value" :> x]
    /\ issued' = <<>>
    /\ UNCHANGED <<objs, cache, store, nextId, thr, own, fval, handle>>

\* h[k] = x, ListField.__setitem__ lines 135-138, k an index of the list
HandleSet(k, x) ==
    /\ handle # 0
    /\ k \in 1..Len(heap[fval["tags"]])
    /\ heap' = IF x.t = "str" THEN [heap EXCEPT ![fval["tags"]][k] = x]
               ELSE heap
    /\ result' = [Outcome("h_set", handle,
                          IF x.t = "str" THEN "none" ELSE "ValidationError",
                          {})
                  EXCEPT !.args = ("value" :> x) @@ ("index" :> IntV(k))]
    /\ issued' = <<>>
    /\ UNCHANGED <<objs, cache, store, nextId, thr, own, fval, handle>>

\* h[k], ListField.__getitem__ lines 132-133, k an index of the list
HandleGet(k) ==
    /\ handle # 0
    /\ k \in 1..Len(heap[fval["tags"]])
    /\ result' = [Outcome("h_get", handle, "none", {}) EXCEPT
                    !.args = ("value" :> heap[fval["tags"]][k])
                             @@ ("index" :> IntV(k))]
    /\ issued' = <<>>
    /\ UNCHANGED <<objs, cache, store, nextId, thr, own, heap, fval, handle>>

\* The application keeps the handle it got by reading tags on one owner and
\* uses it while it reads and assigns tags on the owners.
NextHandle ==
    \/ ConstructOwner
    \/ \E o \in Owners, keep \in BOOLEAN : ReadList(o, keep)
    \/ \E o \in Owners, value \in TagLists : AssignList(o, value)
    \/ \E x \in TagValues : HandleAppend(x)
    \/ \E k \in 1..MaxLen, x \in TagValues : HandleSet(k, x)
    \/ \E k \in 1..MaxLen : HandleGet(k)

SpecHandle == Init /\ [][NextHandle]_vars

(* -------------------------- reference fields -------------------------- *)
\* the state that Document.save works on, and for each instance what its
\* validate() raises: the saves inside one operation change only _id, which
\* validate does not read
DocState ==
    [objs |-> objs, cache |-> cache, store |-> store, nextId |-> nextId,
     issued |-> <<>>,
     exc |-> [i \in Inst |-> IF Exists(i)
                             THEN ValidateExc(objs[i].cls, objs[i].data)
                             ELSE "none"]]

\* self.save() of Document.ref line 58, on instance i, which has no _id:
\* Document.save lines 103-108
SaveIn(st, i) ==
    IF st.exc[i] # "none" THEN [st |-> st, exc |-> st.exc[i]]
    ELSE [st |-> [st EXCEPT
                    !.objs[i].data = ("_id" :> OidV(st.nextId)) @@ @,
                    !.cache[st.objs[i].cls] = CachePut(@, st.nextId, i),
                    !.store[collection(st.objs[i].cls)] =
                        StorageInsert(@, st.nextId, st.objs[i].data),
                    !.nextId = st.nextId + 1,
                    !.issued = Append(@, Request("insert",
                                                 collection(st.objs[i].cls),
                                                 st.nextId))],
          exc |-> "none"]

\* to_ref that keeps whatever it is given
to_ref_kept(st, v) == [st |-> st, exc |-> "none", ref |-> v]

\* BaseField.to_ref lines 58-63 and Document.ref lines 55-59: a DBRef is
\* kept; of anything else the ref attribute is read, which a document
\* instance has (it saves itself first when it has no _id) and other values
\* have not
to_ref(st, v) ==
    IF v.t = "ref" THEN [st |-> st, exc |-> "none", ref |-> v]
    ELSE IF v.t # "doc"
    THEN [st |-> st, exc |-> "AttributeError", ref |-> None]
    ELSE LET i == v.v
             saved == IF HasId(st.objs[i].data)
                      THEN [st |-> st, exc |-> "none"]
                      ELSE SaveIn(st, i)
             data == saved.st.objs[i].data
         IN IF saved.exc # "none"
            THEN [st |-> saved.st, exc |-> saved.exc, ref |-> None]
            ELSE [st |-> saved.st, exc |-> "none",
                  ref |-> RefV(data["_type"].v, IdOf(data))]

\* an append that skips a value the list already holds
ListAppendUnique(lst, x) ==
    IF \E k \in 1..Len(lst) : lst[k] = x THEN lst ELSE Append(lst, x)

\* self._value.append(x) of ListRefField.append line 173
ListAppend(lst, x) == Append(lst, x)

\* self.append(value) of ListRefField.extend line 177, lines 172-173, after
\* the appends that left acc; nothing more is appended once one has raised
AppendOne(acc, v) ==
    IF acc.exc # "none" THEN acc
    ELSE LET r == to_ref(acc.st, v)
         IN IF r.exc # "none"
            THEN [st |-> r.st, lst |-> acc.lst, exc |-> r.exc]
            ELSE [st |-> r.st, lst |-> ListAppend(acc.lst, r.ref),
                  exc |-> "none"]

\* ListRefField.extend lines 175-177 for one value and for two
AppendAll(st, lst, vs) ==
    LET first == AppendOne([st |-> st, lst |-> lst, exc |-> "none"], vs[1])
    IN IF Len(vs) = 1 THEN first ELSE AppendOne(first, vs[2])

\* what the saves inside an operation leave
Commit(st) ==
    /\ objs' = st.objs
    /\ cache' = st.cache
    /\ store' = st.store
    /\ nextId' = st.nextId
    /\ issued' = st.issued

\* the values the application writes to reference fields: the instances of
\* Doc it holds, references, and a string
DocOperands == {DocV(i) : i \in {j \in Inst : objs[j].live}}

RefOperands == {RefV("Doc", id) : id \in Ids}

Operands == DocOperands \cup RefOperands

\* the storage has identities left for the instances among vs that have none
IdsLeft(vs) ==
    nextId + Cardinality({v \in {vs[k] : k \in 1..Len(vs)} :
                            v.t = "doc" /\ ~HasId(objs[v.v].data)}) <= MaxId + 1

\* o.ref = v, RefField.__set__ lines 85-86
WriteRef(o, v) ==
    /\ own[o].live
    /\ IdsLeft(<<v>>)
    /\ LET r == to_ref(DocState, v)
       IN /\ Commit(r.st)
          /\ own' = IF r.exc = "none"
                    THEN [own EXCEPT ![o].data = ("ref" :> r.ref) @@ @]
                    ELSE own
          /\ result' = [Outcome("set_ref", o, r.exc, {}) EXCEPT
                          !.args = "value" :> v]
    /\ UNCHANGED <<thr, heap, fval, handle>>

\* o.refs.append(v), ListRefField.append lines 172-173
RefAppend(o, v) ==
    /\ own[o].live
    /\ IdsLeft(<<v>>)
    /\ Len(heap[ListOf(o, "refs")]) < MaxLen
    /\ fval' = Selfish(o, "refs")
    /\ LET r == AppendAll(DocState, heap[ListOf(o, "refs")], <<v>>)
       IN /\ Commit(r.st)
          /\ heap' = [heap EXCEPT ![ListOf(o, "refs")] = r.lst]
          /\ result' = [Outcome("ref_append", o, r.exc, {}) EXCEPT
                          !.args = "value" :> v]
    /\ UNCHANGED <<thr, own, handle>>

\* o.refs.extend([v, w]), ListRefField.extend lines 175-177
RefExtend(o, v, w) ==
    /\ own[o].live
    /\ IdsLeft(<<v, w>>)
    /\ Len(heap[ListOf(o, "refs")]) + 2 <= MaxLen
    /\ fval' = Selfish(o, "refs")
    /\ LET r == AppendAll(DocState, heap[ListOf(o, "refs")], <<v, w>>)
       IN /\ Commit(r.st)
          /\ heap' = [heap EXCEPT ![ListOf(o, "refs")] = r.lst]
          /\ result' = [Outcome("ref_extend", o, r.exc, {}) EXCEPT
                          !.args = ("value" :> v) @@ ("value2" :> w)]
    /\ UNCHANGED <<thr, own, handle>>

\* o.refs[k] = v, ListRefField.__setitem__ lines 151-152 and
\* ListField.__setitem__ lines 135-138, k an index of the list
RefSetItem(o, k, v) ==
    /\ own[o].live
    /\ IdsLeft(<<v>>)
    /\ k \in 1..Len(heap[ListOf(o, "refs")])
    /\ fval' = Selfish(o, "refs")
    /\ LET r == to_ref(DocState, v)
       IN /\ Commit(r.st)
          /\ heap' = IF r.exc = "none"
                     THEN [heap EXCEPT ![ListOf(o, "refs")][k] = r.ref]
                     ELSE heap
          /\ result' = [Outcome("ref_set", o, r.exc, {}) EXCEPT
                          !.args = ("value" :> v) @@ ("index" :> IntV(k))]
    /\ UNCHANGED <<thr, own, handle>>

\* o.refs = [v] and o.refs = [], ListField.__set__ lines 124-130 with the
\* types of ListRefField (DBRef)
AssignRefs(o, vs) ==
    /\ own[o].live
    /\ IF \A k \in 1..Len(vs) : vs[k].t = "ref"
       THEN /\ heap' = [heap EXCEPT ![ListOf(o, "refs")] = vs]
            /\ fval' = Selfish(o, "refs")
            /\ result' = [Outcome("ref_assign", o, "none", {}) EXCEPT
                            !.args = [k \in {"value"} \cap
                                        {IF vs = <<>> THEN "" ELSE "value"}
                                      |-> vs[1]]]
       ELSE /\ UNCHANGED <<heap, fval>>
            /\ result' = [Outcome("ref_assign", o, "ValidationError", {})
                          EXCEPT !.args = "value" :> vs[1]]
    /\ issued' = <<>>
    /\ UNCHANGED <<objs, cache, store, nextId, thr, own, handle>>

\* One owner; instances of Doc, with and without their required field and
\* with and without identity, are written to its reference fields.
NoOwner == \A o \in Owners : ~own[o].live

NextRef ==
    \/ NoOwner /\ ConstructOwner
    \/ \E kw \in DocKwargs : Construct("Doc", kw)
    \/ \E i \in Inst : SaveInsert(i)
    \/ \E o \in Owners, v \in DocOperands : WriteRef(o, v)
    \/ \E o \in Owners, v \in DocOperands : RefAppend(o, v)
    \/ \E o \in Owners, k \in 1..MaxLen, v \in DocOperands :
          RefSetItem(o, k, v)
    \/ \E o \in Owners, v, w \in DocOperands : RefExtend(o, v, w)

SpecRef == Init /\ [][NextRef]_vars

\* The same owner and instances; instances, references and a string are
\* appended to its list of references, and the list is extended and
\* assigned.
NextRefList ==
    \/ NoOwner /\ ConstructOwner
    \/ \E kw \in DocKwargs : Construct("Doc", kw)
    \/ \E i \in Inst : SaveInsert(i)
    \/ \E o \in Owners, v \in Operands \cup {StrV("x")} : RefAppend(o, v)
    \/ \E o \in Owners, v, w \in Operands : RefExtend(o, v, w)
    \/ \E o \in Owners, k \in 1..MaxLen, v \in Operands : RefSetItem(o, k, v)
    \/ \E o \in Owners, vs \in {<<>>} \cup {<<v>> : v \in Operands} :
          AssignRefs(o, vs)

SpecRefList == Init /\ [][NextRefList]_vars

(* --------------------------- embedded fields -------------------------- *)
\* the field classes of fields.py and the base class of each
FieldClasses ==
    {"BaseField", "Field", "RefField", "ObjectIdField", "SelfishField",
     "ListField", "ListRefField", "DictField", "ListDictField"}

FieldBase ==
    [k \in FieldClasses |->
       CASE k = "BaseField" -> "object"
         [] k \in {"ListField", "ListDictField"} -> "SelfishField"
         [] k = "ListRefField" -> "ListField"
         [] OTHER -> "BaseField"]

RECURSIVE FieldMro(_)
\* the classes an instance of field class k is an instance of
FieldMro(k) == IF k = "object" THEN {k} ELSE {k} \cup FieldMro(FieldBase[k])

\* the class that __init__ of field class k passes to super(), lines 74, 92,
\* 101, 122, 149, 188 and 211; BaseField and Field call no super()
SuperNamed ==
    [k \in FieldClasses |->
       CASE k = "DictField" -> "ListRefField"
         [] k = "ListDictField" -> "ListField"
         [] k \in {"BaseField", "Field"} -> "object"
         [] OTHER -> k]

\* k(Doc): super(C, self) raises TypeError when self is not an instance of C
FieldInitExc(k) ==
    IF SuperNamed[k] \in FieldMro(k) THEN "none" ELSE "TypeError"

EmbeddedKinds == {"DictField", "ListDictField"}

\* a field is instantiated in a class body: f = k(Doc), or k(basestring)
\* for the kinds that hold no documents
DeclareField(k) ==
    /\ result' = [Outcome("declare", 0, FieldInitExc(k), {}) EXCEPT
                    !.args = "kind" :> StrV(k)]
    /\ issued' = <<>>
    /\ UNCHANGED <<objs, cache, store, nextId, thr, fieldVars>>

\* the dict that is the backing store of instance i: the object, not a copy
DataV(i) == [t |-> "data", v |-> i]

\* BaseField.to_dict lines 51-56 and ListDictField.to_dict lines 252-259: a
\* dict is kept, of anything else the data attribute is taken, which
\* Document.data lines 71-74 returns as it is
to_dict(v) == IF v.t = "dict" THEN v ELSE DataV(v.v)

\* The application declares a type with an embedded field of kind k,
\*   class Host(Document): e = k(Doc)
\* and writes instance i of Doc to that field of a new Host: h.e = d for
\* DictField (lines 190-191), h.e.append(d) for ListDictField (lines
\* 245-246).  The class body runs k(Doc) first, lines 185-188 and 208-211.
EmbedWrite(k, i) ==
    /\ objs[i].live
    /\ FreeOwners # {}
    /\ IF FieldInitExc(k) = "none"
       THEN own' = [own EXCEPT ![NewOwner] =
                      [live |-> TRUE,
                       data |-> ("_type" :> StrV("Host")) @@
                                ("e" :> IF k = "DictField"
                                        THEN to_dict(DocV(i))
                                        ELSE [t |-> "seq",
                                              v |-> <<to_dict(DocV(i))>>])]]
       ELSE own' = own
    /\ result' = [Outcome("embed", IF FieldInitExc(k) = "none" THEN NewOwner
                                   ELSE 0,
                          FieldInitExc(k), {})
                  EXCEPT !.args = ("value" :> DocV(i)) @@ ("kind" :> StrV(k))]
    /\ issued' = <<>>
    /\ UNCHANGED <<objs, cache, store, nextId, thr, heap, fval, handle>>

\* Fields of every kind are instantiated; instances of Doc are constructed,
\* written and dropped, and written to embedded fields.
NextEmbed ==
    \/ \E k \in FieldClasses : DeclareField(k)
    \/ \E kw \in DocKwargs : Construct("Doc", kw)
    \/ \E i \in Inst, w \in DocWrites : WriteField(i, w[1], w[2])
    \/ \E i \in Inst : Drop(i)
    \/ \E k \in EmbeddedKinds, i \in Inst : EmbedWrite(k, i)

SpecEmbed == Init /\ [][NextEmbed]_vars

(* ============================== claims =============================== *)
ClsOf(i) == objs[i].cls

DataOf(i) == objs[i].data

\* the last operation was a load that returned an instance
LoadReturned == result.op \in LoadOps /\ result.exc = "none"

\* instance j is held, was returned by a load, and is of class cls and
\* identity id
HeldLoaded(j, cls, id) ==
    /\ objs[j].live /\ objs[j].loaded
    /\ objs[j].cls = cls
    /\ HasId(objs[j].data) /\ IdOf(objs[j].data) = id

\* no two held instances that loads returned share a class and an identity
UniqueLoaded ==
    \A i, j \in Inst :
        (objs[i].live /\ HasId(objs[i].data)
           /\ HeldLoaded(j, objs[i].cls, IdOf(objs[i].data)) /\ objs[i].loaded)
        => i = j

\* a load of identity X for a class returns the held instance that an
\* earlier load returned for X and that class
LoadReturnsHeld ==
    LoadReturned' =>
        \A j \in Inst :
            HeldLoaded(j, objs'[result'.inst].cls, IdOf(objs'[result'.inst].data))
            => j = result'.inst

\* C1: for one document type and one identity X, every find, find_one and
\* dereference that fetches X returns the instance an earlier load returned
\* for X while that instance is held; there is never a second loaded
\* instance of X, so all handles see one backing store.
C1_LoadsShareInstance == []UniqueLoaded /\ [][LoadReturnsHeld]_vars

\* a load has returned, for the second time, an instance that is held
C1_Witness == LoadReturned /\ result.hit = "again"

\* threads t and u have both returned from a load of the same class and
\* identity
BothLoaded(t, u) ==
    /\ thr[t].pc = "done" /\ thr[u].pc = "done"
    /\ thr[t].exc = "none" /\ thr[u].exc = "none"
    /\ thr[t].cls = thr[u].cls
    /\ IdOf(thr[t].doc) = IdOf(thr[u].doc)

\* C2: two threads that concurrently load the same identity of the same
\* type obtain the same instance under every interleaving, and at most one
\* live instance with that identity exists for the type.
C2_ConcurrentLoadsShare ==
    /\ \A t, u \in Threads : BothLoaded(t, u) => thr[t].obj = thr[u].obj
    /\ \A i, j \in Inst :
         (objs[i].live /\ objs[j].live /\ objs[i].cls = objs[j].cls
            /\ HasId(objs[i].data) /\ HasId(objs[j].data)
            /\ IdOf(objs[i].data) = IdOf(objs[j].data))
         => i = j

\* the save step of the instance result'.inst
SaveStep == result'.op = "save"

\* C3: save() on an instance lacking a required field fails with a
\* ValidationError before anything is persisted: no storage request, no
\* identity assigned, no identity-cache entry added.
C3_SaveFailsFast ==
    [][(SaveStep /\ MissingFields(ClsOf(result'.inst), DataOf(result'.inst)) # {})
         => /\ result'.exc = "ValidationError"
            /\ issued' = <<>>
            /\ store' = store
            /\ objs' = objs
            /\ cache' = cache]_vars

\* C4: the first successful save() of an instance without identity issues
\* exactly one insert, stores the identity the storage returned in the
\* backing store and registers the instance in its class's cache; a later
\* successful save() issues one update by that identity and no insert, and
\* leaves the identity as it is.
C4_InsertOnceThenUpdate ==
    [][(SaveStep /\ result'.exc = "none") =>
         LET i == result'.inst
             col == collection(ClsOf(i))
         IN IF ~HasId(DataOf(i))
            THEN /\ Len(issued') = 1
                 /\ issued'[1].op = "insert" /\ issued'[1].col = col
                 /\ issued'[1].id \notin DOMAIN store[col]
                 /\ issued'[1].id \in DOMAIN store'[col]
                 /\ HasId(objs'[i].data)
                 /\ objs'[i].data["_id"] = OidV(issued'[1].id)
                 /\ get_cache(cache'[ClsOf(i)], issued'[1].id) = i
            ELSE /\ issued' = <<Request("update", col, IdOf(DataOf(i)))>>
                 /\ objs'[i].data["_id"] = DataOf(i)["_id"]
                 /\ DOMAIN store'[col] \subseteq DOMAIN store[col]]_vars

\* an instance that its first save registered has been saved again
C4_Witness ==
    /\ result.op = "save" /\ result.exc = "none"
    /\ Len(issued) = 1 /\ issued[1].op = "update"
    /\ get_cache(cache[ClsOf(result.inst)], issued[1].id) = result.inst
    /\ issued[1].id \in DOMAIN store[issued[1].col]

\* C5: whenever save() has returned, the storage holds at the identity of
\* the instance a document equal to the instance's backing store.
C5_SavedIsStored ==
    (result.op = "save" /\ result.exc = "none") =>
        LET i == result.inst
            col == store[collection(ClsOf(i))]
        IN /\ HasId(DataOf(i))
           /\ IdOf(DataOf(i)) \in DOMAIN col
           /\ col[IdOf(DataOf(i))] = DataOf(i)

\* C6: remove() on an instance without identity issues no storage request;
\* on an instance with an identity it issues one remove by that identity;
\* it changes neither the identity cache nor any backing store, so
\* get_cache(identity) returns the instance after the removal as before.
C6_RemoveKeepsCache ==
    [][result'.op = "remove" =>
         LET i == result'.inst
         IN /\ objs' = objs
            /\ cache' = cache
            /\ IF HasId(DataOf(i))
               THEN issued' = <<Request("remove", collection(ClsOf(i)),
                                        IdOf(DataOf(i)))>>
               ELSE issued' = <<>> /\ store' = store
            /\ \A id \in Ids :
                 get_cache(cache[ClsOf(i)], id) = i
                 => get_cache(cache'[ClsOf(i)], id) = i]_vars

\* a cached instance has been removed from the storage and is still cached
C6_Witness ==
    /\ result.op = "remove"
    /\ Len(issued) = 1
    /\ issued[1].id \notin DOMAIN store[issued[1].col]
    /\ objs[result.inst].live
    /\ get_cache(cache[ClsOf(result.inst)], issued[1].id) = result.inst

\* every cache entry is for an instance that exists
NoDeadEntries ==
    \A c \in Classes : \A id \in DOMAIN cache[c] :
        Exists(cache[c][id]) /\ objs[cache[c][id]].cls = c

\* dropping an instance removes its entries and leaves every other entry
DropEvicts ==
    \A i \in Inst :
        (Exists(i) /\ objs'[i] = NoObj) =>
            \A c \in Classes :
                /\ DOMAIN cache'[c] = {id \in DOMAIN cache[c] : cache[c][id] # i}
                /\ \A id \in DOMAIN cache'[c] : cache'[c][id] = cache[c][id]

\* a load of an identity that has no cache entry returns an instance that
\* did not exist before and whose backing store is the stored document,
\* completed by defaults
FreshLoad ==
    (LoadReturned' /\ result'.hit = "new") =>
        LET r == result'.inst
            doc == store[issued'[1].col][issued'[1].id]
        IN /\ ~Exists(r)
           /\ get_cache(cache'[objs'[r].cls], issued'[1].id) = r
           /\ \A k \in DOMAIN doc : k \in DOMAIN objs'[r].data
                                    /\ objs'[r].data[k] = doc[k]
           /\ \A k \in (DOMAIN objs'[r].data) \ (DOMAIN doc) :
                  /\ k \in DOMAIN Defaults(objs'[r].cls)
                  /\ objs'[r].data[k] = Defaults(objs'[r].cls)[k]

\* C7: dropping the last strong reference to a cached instance removes its
\* entry from its class's identity cache and leaves every other entry; a
\* later load of the identity constructs a fresh instance from the stored
\* document; the cache never holds an entry for a dead instance.
C7_EvictionOnDrop == []NoDeadEntries /\ [][DropEvicts /\ FreshLoad]_vars

\* after its saved instance was dropped, an identity has been loaded into a
\* fresh instance of the same class, while another entry stayed in the cache
C7_Witness ==
    /\ LoadReturned /\ result.hit = "new"
    /\ objs[result.inst].cls = issued[1].col
    /\ \E id \in DOMAIN cache[issued[1].col] : id # issued[1].id

\* C8: validate() on a document lacking N >= 1 required fields fails with
\* one ValidationError listing all N names; with none missing it returns.
C8_ValidateListsAll ==
    result.op = "validate" =>
        LET missing == MissingFields(ClsOf(result.inst), DataOf(result.inst))
        IN IF missing = {}
           THEN result.exc = "none"
           ELSE result.exc = "ValidationError" /\ result.listed = missing

\* the last operation was a construction that returned an instance
Constructed == result.op \in {"construct", "construct_id"} /\ result.exc = "none"

\* C9: after a successful construction every field given as an argument
\* holds the supplied value, every other field with a non-null default holds
\* that default, and a field with neither is absent.
C9_ArgumentsThenDefaults ==
    Constructed =>
        LET f == Fields(ClsOf(result.inst))
            d == DataOf(result.inst)
            kw == result.args
        IN /\ DOMAIN d \subseteq DOMAIN f
           /\ \A k \in DOMAIN f :
                IF k \in DOMAIN kw THEN k \in DOMAIN d /\ d[k] = kw[k]
                ELSE IF f[k].default # None
                     THEN k \in DOMAIN d /\ d[k] = f[k].default
                     ELSE k \notin DOMAIN d

\* a construction was given a value for a field that has another default,
\* and no value for a field that has a default and for one that has none
C9_Witness ==
    /\ Constructed
    /\ \E k \in DOMAIN result.args :
          /\ Fields(ClsOf(result.inst))[k].default # None
          /\ Fields(ClsOf(result.inst))[k].default # result.args[k]
    /\ \E k \in DOMAIN Defaults(ClsOf(result.inst)) : k \notin DOMAIN result.args
    /\ \E k \in DOMAIN Fields(ClsOf(result.inst)) : k \notin DOMAIN DataOf(result.inst)

\* the step is a successful construction with an identity argument
ConstructIdStep == result'.op = "construct_id" /\ result'.exc = "none"

\* C10 as stated: constructing with an identity argument X while X is
\* present in the class's cache registers the new instance under X.
C10_RegistersWhenPresent ==
    [][(ConstructIdStep
          /\ CacheHas(cache[objs'[result'.inst].cls], IdOf(result'.args)))
         => get_cache(cache'[objs'[result'.inst].cls], IdOf(result'.args))
              = result'.inst]_vars

\* C10 as amended: constructing with an identity argument X registers the
\* new instance under X while X is absent from the class's cache, and
\* leaves the cache as it is while X is present.
C10_RegistersWhenAbsent ==
    [][ConstructIdStep =>
         LET cls == objs'[result'.inst].cls
             id == IdOf(result'.args)
         IN IF CacheHas(cache[cls], id)
            THEN cache' = cache
            ELSE /\ get_cache(cache'[cls], id) = result'.inst
                 /\ \A c \in Classes : \A x \in DOMAIN cache[c] :
                        get_cache(cache'[c], x) = cache[c][x]]_vars

\* a construction with an identity argument has registered its instance,
\* beside a cache entry that was there before
C10_Witness ==
    /\ Constructed /\ result.op = "construct_id"
    /\ get_cache(cache[ClsOf(result.inst)], IdOf(result.args)) = result.inst
    /\ \E id \in DOMAIN cache[ClsOf(result.inst)] : id # IdOf(result.args)

\* C12: dereferencing through a requesting class B a document whose type tag
\* names a direct or transitive subclass of B yields an instance of that
\* subclass, looked up in and registered with the subclass's cache; when the
\* tag is B's name it yields an instance of B.
C12_DereferenceResolvesTag ==
    [][(result'.op = "dereference" /\ result'.exc = "none") =>
          LET B == result'.via
              id == issued'[1].id
              tag == store[issued'[1].col][id]["_type"].v
              r == result'.inst
          IN /\ (\E n \in 2..Len(Mro(tag)) : Mro(tag)[n] = B) =>
                   /\ objs'[r].cls = tag
                   /\ get_cache(cache'[tag], id) = r
                   /\ CacheHas(cache[tag], id) => r = cache[tag][id]
                   /\ cache'[B] = cache[B]
             /\ tag = B =>
                   /\ objs'[r].cls = B
                   /\ get_cache(cache'[B], id) = r]_vars

\* a dereference through a class has returned the cached instance of a
\* subclass of a subclass of that class
C12_Witness ==
    /\ result.op = "dereference" /\ result.exc = "none"
    /\ LET c == ClsOf(result.inst)
       IN /\ Len(Mro(c)) >= 3
          /\ Mro(c)[3] = result.via
          /\ store[issued[1].col][issued[1].id]["_type"].v = c
          /\ get_cache(cache[c], issued[1].id) = result.inst
    /\ result.hit \in {"cached", "again"}

\* C16: a construction that fails the validation of an argument, with or
\* without an identity argument, leaves the storage and every identity
\* cache as they were before it.
C16_FailedConstructionNoEffect ==
    [][(result'.op \in {"construct", "construct_id"}
          /\ result'.exc = "ValidationError")
         => store' = store /\ cache' = cache]_vars

\* a successful save leaves the instance's backing store, identity and type
\* tag included, as the stored document of its identity
SavedAsIs ==
    (SaveStep /\ result'.exc = "none") =>
        LET i == result'.inst
        IN /\ HasId(objs'[i].data) /\ "_type" \in DOMAIN objs'[i].data
           /\ store'[issued'[1].col][issued'[1].id] = objs'[i].data

\* a load of a class's own document whose identity has no cache entry
\* constructs an instance whose backing store is the stored document
LoadedAsSaved ==
    (LoadReturned' /\ result'.hit = "new"
       /\ store[issued'[1].col][issued'[1].id]["_type"].v
            = objs'[result'.inst].cls)
    => objs'[result'.inst].data = store[issued'[1].col][issued'[1].id]

\* C17: round trip.  A document built through field writes and defaults is
\* saved; once its cache entry is evicted, loading its identity yields an
\* instance whose backing store equals the one that was saved, type tag and
\* identity included.
C17_RoundTrip == [][SavedAsIs /\ LoadedAsSaved]_vars

\* a document with a written field and a field left at its default has been
\* saved, evicted and loaded into a new instance
C17_Witness ==
    /\ LoadReturned /\ result.hit = "new"
    /\ ClsOf(result.inst) = "Rec"
    /\ DataOf(result.inst)["_type"] = StrV("Rec")
    /\ DataOf(result.inst)["title"] = StrV("b")
    /\ DataOf(result.inst)["rank"] = IntV(0)
    /\ DataOf(result.inst) = store[issued[1].col][issued[1].id]

\* C18: a load that fetches a document whose identity has a cached instance
\* leaves that instance's backing store equal to the fetched document:
\* unsaved writes are discarded and no other key of the old backing store
\* survives.
C18_ReloadReplacesWholesale ==
    [][(LoadReturned' /\ result'.hit \in {"cached", "again"}) =>
          LET r == result'.inst
              doc == store[issued'[1].col][issued'[1].id]
          IN /\ Exists(r)
             /\ get_cache(cache[objs[r].cls], issued'[1].id) = r
             /\ objs'[r].data = doc
             /\ \A k \in DOMAIN objs[r].data :
                   k \in DOMAIN objs'[r].data => k \in DOMAIN doc]_vars

\* a load has returned once more a cached instance that was constructed
\* with a default the fetched document lacks, and has removed that key
C18_Witness ==
    /\ LoadReturned /\ result.hit = "again"
    /\ ClsOf(result.inst) = "Rec"
    /\ "rank" \notin DOMAIN DataOf(result.inst)
    /\ DataOf(result.inst) = store[issued[1].col][issued[1].id]

\* C20: the two materialization paths agree.  A load that reuses the cached
\* instance leaves it with the backing store that constructing a new
\* instance from the same raw document produces, and succeeds only when
\* that construction succeeds.
C20_PathsAgree ==
    [][(LoadReturned' /\ result'.hit \in {"cached", "again"}) =>
          LET r == result'.inst
              doc == store[issued'[1].col][issued'[1].id]
          IN /\ InitOK(objs'[r].cls, doc)
             /\ objs'[r].data = InitData(objs'[r].cls, doc)]_vars

\* the value of the list at address a, with the lists it holds as elements
\* replaced by their elements
DeepVal(h, a) ==
    [k \in 1..Len(h[a]) |->
        IF h[a][k].t = "list" THEN [t |-> "list", v |-> h[h[a][k].v]]
        ELSE h[a][k]]

\* C11: instances constructed from the same declarations share no mutable
\* default state.  Changing in place, at any depth, the value a default gave
\* to one instance leaves the values of the other instances and the default
\* of the declaration as they were.
C11_DefaultsNotShared ==
    [][result'.op \in {"append", "append_nested"} =>
         /\ DeepVal(heap', DeclOuter) = DeepVal(heap, DeclOuter)
         /\ \A p \in Owners : \A f \in {"m", "tags"} :
               (own[p].live /\ p # result'.inst)
               => DeepVal(heap', ListOf(p, f)) = DeepVal(heap, ListOf(p, f))]_vars

\* C19: an index-get, index-set or append made through the handle obtained
\* by reading the list field on owner A reads and changes A's list only,
\* whatever reads and assignments of the field on other owners came between.
C19_HandleStaysWithOwner ==
    [][result'.op \in {"h_append", "h_set", "h_get"} =>
         LET A == result'.inst
             old == heap[ListOf(A, "tags")]
             new == heap'[ListOf(A, "tags")]
             x == result'.args["value"]
         IN /\ \A B \in Owners \ {A} :
                  own[B].live =>
                     heap'[ListOf(B, "tags")] = heap[ListOf(B, "tags")]
            /\ result'.op = "h_append" => new = Append(old, x)
            /\ result'.op = "h_set" =>
                  /\ result'.args["index"].v \in 1..Len(old)
                  /\ new = [old EXCEPT ![result'.args["index"].v] = x]
            /\ result'.op = "h_get" =>
                  /\ result'.args["index"].v \in 1..Len(old)
                  /\ x = old[result'.args["index"].v]]_vars

\* the reference to instance i as it is after the step
RefTo(i) == RefV(objs'[i].data["_type"].v, IdOf(objs'[i].data))

\* after the step instance i has an identity, is stored under it and is
\* registered under it in the cache of its class
Settled(i) ==
    /\ HasId(objs'[i].data)
    /\ IdOf(objs'[i].data) \in DOMAIN store'[collection(objs'[i].cls)]
    /\ get_cache(cache'[objs'[i].cls], IdOf(objs'[i].data)) = i

\* the save that a write of instance i runs first fails
SaveFails(i) ==
    ~HasId(objs[i].data) /\ ValidateExc(objs[i].cls, objs[i].data) # "none"

\* a step that writes a document instance to reference field ref or to the
\* reference list refs of an owner
RefWriteStep ==
    /\ result'.op \in {"set_ref", "ref_set", "ref_append", "ref_extend"}
    /\ result'.args["value"].t = "doc"
    /\ result'.op = "ref_extend" => result'.args["value2"].t = "doc"

C13_WitnessFailedSave ==
    /\ result.op = "set_ref" /\ result.exc # "none"
    /\ result.args["value"].t = "doc"
    /\ ~HasId(objs[result.args["value"].v].data)
    /\ "ref" \notin DOMAIN own[result.inst].data
\* every element of every reference list is a reference
AllReferences ==
    \A o \in Owners :
        own[o].live =>
            \A k \in 1..Len(heap[ListOf(o, "refs")]) :
                heap[ListOf(o, "refs")][k].t = "ref"

\* the element that adding value v to a reference list adds
Added(v) == IF v.t = "doc" THEN RefTo(v.v) ELSE v

C14_WitnessRejected ==
    /\ result.op = "ref_assign" /\ result.exc = "ValidationError"
    /\ result.args["value"].t = "doc"
    /\ heap[ListOf(result.inst, "refs")] # <<>>
\* C15: a write of a typed object to an embedded field, single or element
\* of an embedded list, succeeds and stores a copy of the object's backing
\* data that the owner alone holds: the owner's value is a dict equal to
\* that data and is not the dict object of the source, so that a change on
\* either side leaves the other as it was.
C15_EmbeddedWriteCopies ==
    [][result'.op = "embed" =>
         LET i == result'.args["value"].v
             copied == [t |-> "dict", v |-> objs[i].data]
         IN /\ result'.exc = "none"
            /\ result'.inst \in Owners
            /\ own'[result'.inst].data["e"] =
                 IF result'.args["kind"] = StrV("DictField") THEN copied
                 ELSE [t |-> "seq", v |-> <<copied>>]
            /\ objs' = objs]_vars
====
